---- MODULE Spec2Model ----
(***************************************************************************)
(* PromptPro: a versioned store of named prompts.                          *)
(*                                                                         *)
(* The Python package (src/promptpro) is a thin layer over a compiled      *)
(* extension (PyPromptVault, PySyncPromptManager).  The extension itself   *)
(* is not part of the sources; the definitions of the section "Vault       *)
(* engine" follow spec.md sections 3, 4 and 7.  Everything from the        *)
(* section "Python layer" on is translated from src/promptpro/api.py and   *)
(* src/promptpro/__init__.py.                                              *)
(*                                                                         *)
(* Python's Optional[T] is a set with at most one element: None is {} and  *)
(* a present value x is {x}.  Record fields timestamp and object_hash are  *)
(* carried by no operation's control flow and are left out.                *)
(***************************************************************************)
EXTENDS Integers, Sequences, FiniteSets, TLC

VARIABLES
    vault,      \* the vault a caller holds: [chains, tags]
    result,     \* the last call and what it returned or raised
    passed,     \* history variable: contents passed to the successful add/update calls of each key since it was created
    purged,     \* history variable: [deleted, tagged]: the keys in state Deleted, and those of them that carried a tag when deleted
    files,      \* the file system: path -> what is stored there
    filePassed, \* history variable: per path, the vault and `passed` at the last dump to it
    instance,   \* PromptManager._instance: {} or {index into managers}
    managers,   \* every PromptManager constructed so far, in order of construction
    pc,         \* per thread: where it stands in the call it is making
    local,      \* per thread: arguments and locals of that call
    inVault,    \* threads currently executing inside the shared manager's vault
    lock,       \* holder of the extension's manager lock: {} or {thread}
    globals     \* the names bound in package promptpro once it is loaded: a set of [name, module, object]

vars == <<vault, result, passed, purged, files, filePassed, instance, managers, pc, local, inVault, lock, globals>>

----------------------------------------------------------------------------
(* Bounds and input alphabets *)

MaxRecords == 2
MaxChain == 3
PersistMaxRecords == 2
NumThreads == 2

Keys == {"k1", "k2"}
Tags == {"stable", "latest"}
Contents == {<<"a">>, <<"a", "b", "c">>, <<"a", "b", "d">>}
Messages == {{}}
ChainMessages == {{"Improved summarization prompt"}}
Threads == 1..NumThreads
Paths == {"vault.bin", "dir"}
Passwords == {{}, {"backup_password"}, {"wrong"}}

NonePy == {}
Some(x) == {x}
The(opt) == CHOOSE x \in opt : TRUE

Ok(v) == [ok |-> TRUE, err |-> "", val |-> v]
Err(kind) == [ok |-> FALSE, err |-> kind, val |-> <<>>]

----------------------------------------------------------------------------
(* Vault engine (spec.md 4.1-4.5) *)

SnapshotThresholdPct == 70

RECURSIVE CommonPrefixLen(_, _)
CommonPrefixLen(p, n) ==
    IF p = <<>> \/ n = <<>> \/ Head(p) # Head(n) THEN 0
    ELSE 1 + CommonPrefixLen(Tail(p), Tail(n))

\* a delta keeps the first `keep` lines of the parent and appends `tail`
PayloadSize(payload) == 1 + Len(payload.tail)

encode(parent_content, new_content) ==
    IF parent_content = NonePy
    THEN [payload |-> [keep |-> 0, tail |-> new_content], snapshot |-> TRUE]
    ELSE LET keep == CommonPrefixLen(The(parent_content), new_content)
             delta == [keep |-> keep, tail |-> SubSeq(new_content, keep + 1, Len(new_content))]
         IN IF PayloadSize(delta) * 100 > SnapshotThresholdPct * Len(new_content)
            THEN [payload |-> [keep |-> 0, tail |-> new_content], snapshot |-> TRUE]
            ELSE [payload |-> delta, snapshot |-> FALSE]

decode(parent_content, payload, is_snapshot) ==
    IF is_snapshot THEN Ok(payload.tail)
    ELSE IF parent_content = NonePy \/ payload.keep > Len(The(parent_content))
         THEN Err("CorruptDelta")
         ELSE Ok(SubSeq(The(parent_content), 1, payload.keep) \o payload.tail)

\* full content of version v of a chain: replay from the nearest snapshot
RECURSIVE reconstruct(_, _)
reconstruct(chain, v) ==
    LET rec == chain[v]
    IN IF rec.snapshot THEN decode(NonePy, rec.payload, TRUE)
       ELSE IF v = 1 THEN Err("CorruptDelta")
       ELSE LET par == reconstruct(chain, v - 1)
            IN IF par.ok THEN decode(Some(par.val), rec.payload, FALSE) ELSE par

latest_version_number(chain) ==
    IF chain = <<>> THEN NonePy ELSE Some(chain[Len(chain)].version)

append(chain, content, message) ==
    LET last == latest_version_number(chain)
        parent == IF last = NonePy THEN NonePy ELSE Some(reconstruct(chain, The(last)).val)
        enc == encode(parent, content)
        version == IF last = NonePy THEN 1 ELSE The(last) + 1
    IN Append(chain, [version |-> version, parent |-> last, message |-> message,
                      payload |-> enc.payload, snapshot |-> enc.snapshot])

EmptyTags == [t \in Tags |-> NonePy]
EmptyVault == [chains |-> [k \in Keys |-> <<>>], tags |-> [k \in Keys |-> EmptyTags]]

Active(v, key) == key \in DOMAIN v.chains /\ v.chains[key] # <<>>

Out(res, v) == [res |-> res, vault |-> v]

IntSel(n) == [type |-> "int", n |-> n, s |-> ""]
StrSel(s) == [type |-> "str", n |-> 0, s |-> s]

content_of(v, key, version) == reconstruct(v.chains[key], version)

vault_add(v, key, content) ==
    IF Active(v, key) THEN Out(Err("AlreadyExists"), v)
    ELSE Out(Ok(<<>>), [chains |-> [v.chains EXCEPT ![key] = append(<<>>, content, NonePy)],
                       tags |-> [v.tags EXCEPT ![key] = EmptyTags]])

vault_update(v, key, content, message) ==
    IF ~Active(v, key) THEN Out(Err("NotFound"), v)
    ELSE Out(Ok(<<>>), [v EXCEPT !.chains[key] = append(v.chains[key], content, message)])

tag_get(v, key, tag) == IF tag \in DOMAIN v.tags[key] THEN v.tags[key][tag] ELSE NonePy

\* selector resolution: "latest" first, then the tag table, else InvalidSelector
resolve(v, key, selector) ==
    LET n == Len(v.chains[key])
    IN IF selector.type = "int"
       THEN IF selector.n \in 1..n THEN content_of(v, key, selector.n) ELSE Err("VersionNotFound")
       ELSE IF selector.s = "latest" THEN content_of(v, key, n)
       ELSE IF tag_get(v, key, selector.s) # NonePy
            THEN content_of(v, key, The(tag_get(v, key, selector.s)))
            ELSE Err("InvalidSelector")

vault_get(v, key, selector) ==
    IF ~Active(v, key) THEN Out(Err("NotFound"), v) ELSE Out(resolve(v, key, selector), v)

vault_get_latest(v, key) == vault_get(v, key, StrSel("latest"))

\* the exposed record: tags is the derived view of the tag table
chain_history(v, key) ==
    [i \in 1..Len(v.chains[key]) |->
        LET rec == v.chains[key][i]
        IN [key |-> key, version |-> rec.version, parent |-> rec.parent,
            message |-> rec.message, snapshot |-> rec.snapshot,
            tags |-> {t \in Tags : v.tags[key][t] = Some(rec.version)}]]

vault_history(v, key) ==
    IF ~Active(v, key) THEN Out(Err("NotFound"), v) ELSE Out(Ok(chain_history(v, key)), v)

tag_set(v, key, tag, version) ==
    IF version \in 1..Len(v.chains[key])
    THEN Out(Ok(<<>>), [v EXCEPT !.tags[key][tag] = Some(version)])
    ELSE Out(Err("VersionNotFound"), v)

vault_tag(v, key, tag, version) ==
    IF ~Active(v, key) THEN Out(Err("NotFound"), v) ELSE tag_set(v, key, tag, version)

vault_promote(v, key, tag) ==
    IF ~Active(v, key) THEN Out(Err("NotFound"), v)
    ELSE tag_set(v, key, tag, The(latest_version_number(v.chains[key])))

vault_get_latest_version_number(v, key) ==
    Out(Ok(latest_version_number(v.chains[key])), v)

vault_delete(v, key) ==
    IF ~Active(v, key) THEN Out(Err("NotFound"), v)
    ELSE Out(Ok(<<>>), [chains |-> [v.chains EXCEPT ![key] = <<>>],
                       tags |-> [v.tags EXCEPT ![key] = EmptyTags]])

----------------------------------------------------------------------------
(* Persistence Codec (spec.md 4.6, 6): the vault as one binary blob, sealed
   with a password-derived key when a password is given.  Encryption is
   symbolic: a sealed payload opens with the key it was sealed with and with
   no other. *)

FormatVersion == 1
KeyOrder == <<"k1", "k2">>

Missing == [kind |-> "missing", blob |-> <<>>]
Directory == [kind |-> "dir", blob |-> <<>>]
RegularFile(blob) == [kind |-> "file", blob |-> blob]

kdf(password) == <<"kdf", The(password)>>

\* per Active key, in key order: the records with payloads and flags, and the tag pairs
serialize(v) ==
    LET live == SelectSeq(KeyOrder, LAMBDA k : Active(v, k))
    IN [i \in 1..Len(live) |->
          [key |-> live[i], records |-> v.chains[live[i]],
           tags |-> {<<t, n>> \in Tags \X (1..Len(v.chains[live[i]])) : v.tags[live[i]][t] = Some(n)}]]

well_formed(entries) ==
    \A i \in 1..Len(entries) :
        /\ entries[i].records # <<>>
        /\ \A n \in 1..Len(entries[i].records) : entries[i].records[n].version = n
        /\ \A i2 \in 1..Len(entries) : entries[i2].key = entries[i].key => i2 = i

deserialize(entries) ==
    LET at(k) == {i \in 1..Len(entries) : entries[i].key = k}
    IN [chains |-> [k \in Keys |-> IF at(k) = {} THEN <<>> ELSE entries[The(at(k))].records],
        tags |-> [k \in Keys |-> [t \in Tags |->
                    IF at(k) = {} THEN NonePy
                    ELSE {pr[2] : pr \in {q \in entries[The(at(k))].tags : q[1] = t}}]]]

seal(password, entries) ==
    [magic |-> "PPRO", format |-> FormatVersion,
     key |-> IF password = NonePy THEN NonePy ELSE Some(kdf(password)),
     payload |-> entries]

unseal(password, blob) ==
    IF blob.magic # "PPRO" THEN Err("CorruptFile")
    ELSE IF blob.format # FormatVersion THEN Err("UnsupportedFormat")
    ELSE IF blob.key # NonePy /\ (password = NonePy \/ blob.key # Some(kdf(password)))
         THEN Err("AuthenticationFailed")
    ELSE IF ~well_formed(blob.payload) THEN Err("CorruptFile")
    ELSE Ok(deserialize(blob.payload))

\* returns the outcome and the file system after the call
vault_dump(v, fs, path, password) ==
    IF fs[path].kind = "dir" THEN [res |-> Err("IOFailure"), fs |-> fs]
    ELSE [res |-> Ok(<<>>), fs |-> [fs EXCEPT ![path] = RegularFile(seal(password, serialize(v)))]]

vault_restore(fs, path, password) ==
    IF fs[path].kind # "file" THEN Err("IOFailure") ELSE unseal(password, fs[path].blob)

vault_restore_or_default(fs, path, password) ==
    IF fs[path].kind = "missing" THEN Ok(EmptyVault) ELSE vault_restore(fs, path, password)

----------------------------------------------------------------------------
(* Python layer: src/promptpro/api.py, class PromptVault *)

\* faulty variant: the tags of the extension's record are not copied
VersionMeta_drops_tags(rust_meta) ==
    [key |-> rust_meta.key, version |-> rust_meta.version, parent |-> rust_meta.parent,
     message |-> rust_meta.message, snapshot |-> rust_meta.snapshot, tags |-> {}]

\* faulty variant: the parent field is copied from the wrong attribute
VersionMeta_parent_from_version(rust_meta) ==
    [key |-> rust_meta.key, version |-> rust_meta.version, parent |-> Some(rust_meta.version),
     message |-> rust_meta.message, snapshot |-> rust_meta.snapshot, tags |-> rust_meta.tags]

VersionMeta(rust_meta) ==
    [key |-> rust_meta.key, version |-> rust_meta.version, parent |-> rust_meta.parent,
     message |-> rust_meta.message, snapshot |-> rust_meta.snapshot, tags |-> rust_meta.tags]

\* faulty variant: add forwards to the extension's update
PromptVault_add_as_update(v, key, content) == vault_update(v, key, content, NonePy)

PromptVault_add(v, key, content) == vault_add(v, key, content)

PromptVault_update(v, key, content, message) == vault_update(v, key, content, message)

\* faulty variant: the selector is handed on as text, a version number too
PromptVault_get_stringifies(v, key, selector) ==
    vault_get(v, key, IF selector.type = "int" THEN StrSel(ToString(selector.n)) ELSE selector)

\* faulty variant: the selector is not forwarded, the extension falls back to its default "latest"
PromptVault_get_drops_selector(v, key, selector) == vault_get(v, key, StrSel("latest"))

PromptVault_get(v, key, selector) == vault_get(v, key, selector)

PromptVault_get_latest(v, key) == vault_get_latest(v, key)

PromptVault_history(v, key) ==
    LET rust_versions == vault_history(v, key)
    IN IF rust_versions.res.ok
       THEN Out(Ok([i \in DOMAIN rust_versions.res.val |-> VersionMeta(rust_versions.res.val[i])]), v)
       ELSE rust_versions

\* faulty variant: the tag is first put on the latest version, then moved
PromptVault_tag_promotes_first(v, key, tag, version) ==
    LET first == vault_promote(v, key, tag)
    IN vault_tag(first.vault, key, tag, version)

\* faulty variant: tag forwards to the extension's promote and loses the version
PromptVault_tag_as_promote(v, key, tag, version) == vault_promote(v, key, tag)

\* faulty variant: the version is shifted as if versions were counted from 0
PromptVault_tag_off_by_one(v, key, tag, version) == vault_tag(v, key, tag, version + 1)

PromptVault_tag(v, key, tag, version) == vault_tag(v, key, tag, version)

PromptVault_promote(v, key, tag) == vault_promote(v, key, tag)

\* faulty variant: "no versions" is turned into the number 0
PromptVault_get_latest_version_number_or_zero(v, key) ==
    LET out == vault_get_latest_version_number(v, key)
    IN IF out.res.val = NonePy THEN Out(Ok(Some(0)), v) ELSE out

PromptVault_get_latest_version_number(v, key) == vault_get_latest_version_number(v, key)

\* faulty variant: delete returns without calling the extension
PromptVault_delete_noop(v, key) == Out(Ok(<<>>), v)

PromptVault_delete(v, key) == vault_delete(v, key)

\* PromptVault(path): a wrapper object around a new extension vault
PromptVault_init(path) == [_rust_vault |-> EmptyVault]

PromptVault_dump(v, fs, output_path, password) == vault_dump(v, fs, output_path, password)

\* faulty variant: the password is not forwarded
PromptVault_restore_drops_password(fs, input_path, password) == vault_restore(fs, input_path, NonePy)

\* faulty variant: a failure to load is swallowed and a new vault is returned
PromptVault_restore_swallows_error(fs, input_path, password) ==
    LET rust_vault == vault_restore(fs, input_path, password)
    IN IF rust_vault.ok THEN Ok(rust_vault.val) ELSE Ok(PromptVault_init(NonePy)._rust_vault)

PromptVault_restore(fs, input_path, password) ==
    LET rust_vault == vault_restore(fs, input_path, password)
    IN IF rust_vault.ok THEN Ok([_rust_vault |-> rust_vault.val]._rust_vault) ELSE rust_vault

\* faulty variant: the restored extension vault is never put into the wrapper
PromptVault_restore_or_default_keeps_new(fs, input_path, password) ==
    LET rust_vault == vault_restore_or_default(fs, input_path, password)
        new_vault == PromptVault_init(NonePy)
    IN IF rust_vault.ok THEN Ok(new_vault._rust_vault) ELSE rust_vault

PromptVault_restore_or_default(fs, input_path, password) ==
    LET rust_vault == vault_restore_or_default(fs, input_path, password)
        new_vault == PromptVault_init(NonePy)
    IN IF rust_vault.ok
       THEN Ok([new_vault EXCEPT !._rust_vault = rust_vault.val]._rust_vault)
       ELSE rust_vault

----------------------------------------------------------------------------
(* Loading the package (src/promptpro/__init__.py, lines 6-38).  The compiled
   module promptpro.promptpro is outside the sources: it is absent, or it
   exports some of the names the package asks for. *)

ExtensionNames == {"PyPromptVault", "PyVersionMeta", "PySyncPromptManager", "DefaultPromptManager"}

NoExtension == [present |-> FALSE, exports |-> {}]
\* the compiled module with the three classes src/promptpro/api.py imports
CoreExtension == [present |-> TRUE, exports |-> ExtensionNames \ {"DefaultPromptManager"}]
\* the compiled module with every name src/promptpro/__init__.py imports
FullExtension == [present |-> TRUE, exports |-> ExtensionNames]
Extensions == {NoExtension, CoreExtension, FullExtension}

\* from .promptpro import <names>: ImportError unless every name is there
from_import(extension, names) == extension.present /\ names \subseteq extension.exports

bind(ns, name, module, object) ==
    {b \in ns : b.name # name} \cup {[name |-> name, module |-> module, object |-> object]}

lookup(ns, name) == CHOOSE b \in ns : b.name = name

in_globals(ns, name) == \E b \in ns : b.name = name

\* import promptpro.api: its own import of the compiled module, then its definitions
api(extension) ==
    IF from_import(extension, {"PyPromptVault", "PyVersionMeta", "PySyncPromptManager"})
    THEN Ok({[name |-> n, module |-> "promptpro.api", object |-> n] :
                n \in {"PromptVault", "VersionMeta", "DefaultPromptManager", "get_default_manager"}})
    ELSE Err("ImportError")

\* import promptpro: the try/except of lines 6-21, then the def of line 26 and
\* the class of line 37, which bind get_default_manager and PromptManager anew
package(extension) ==
    LET tried == from_import(extension, ExtensionNames)
        compiled == {[name |-> n, module |-> "promptpro.promptpro", object |-> n] : n \in ExtensionNames}
        aliased == bind(bind(bind(compiled,
                       "PromptVault", "promptpro.promptpro", "PyPromptVault"),
                       "VersionMeta", "promptpro.promptpro", "PyVersionMeta"),
                       "PromptManager", "promptpro.promptpro", "PySyncPromptManager")
        fallback == api(extension)
        imported == IF tried THEN aliased ELSE fallback.val
    IN IF ~tried /\ ~fallback.ok
       THEN Err("ImportError")
       ELSE Ok(bind(bind(imported,
                   "get_default_manager", "promptpro", "get_default_manager"),
                   "PromptManager", "promptpro", "PromptManager"))

----------------------------------------------------------------------------
(* A caller of the low-level API (src/demo_ppro.py, test_low_level): one
   action per PromptVault call; `result` records the call and its outcome. *)

\* version numbers worth passing for a key: every existing one and one beyond each end
Versions(v, key) == 0..(Len(v.chains[key]) + 1)
Selectors(v, key) == {IntSel(n) : n \in Versions(v, key)} \cup {StrSel(s) : s \in Tags \cup {"latest", "nosuch"}}

\* the key's state in the life cycle Absent -> Active -> Deleted (spec.md 4.5)
KeyState(key) ==
    IF Active(vault, key) THEN "Active"
    ELSE IF key \in purged.tagged THEN "DeletedTagged"
    ELSE IF key \in purged.deleted THEN "Deleted" ELSE "Absent"

TotalRecords(v) == Len(v.chains["k1"]) + Len(v.chains["k2"])

Call(op, key, sel, tag, version, content, res) ==
    [op |-> op, key |-> key, sel |-> sel, tag |-> tag, version |-> version,
     content |-> content, res |-> res, was |-> IF key \in Keys THEN KeyState(key) ELSE "",
     path |-> "", password |-> NonePy]

NoCall == Call("none", "", StrSel(""), "", 0, <<>>, Ok(<<>>))

NoFiles == [p \in Paths |-> IF p = "dir" THEN Directory ELSE Missing]
NoDumps == [p \in Paths |-> [vault |-> EmptyVault, passed |-> [k \in Keys |-> <<>>], password |-> NonePy]]

Idle == /\ files = NoFiles /\ filePassed = NoDumps
        /\ instance = NonePy /\ managers = <<>>
        /\ pc = [t \in Threads |-> "idle"] /\ local = [t \in Threads |-> <<>>]
        /\ inVault = {} /\ lock = NonePy /\ globals = package(CoreExtension).val

Init ==
    /\ vault = EmptyVault
    /\ result = NoCall
    /\ passed = [k \in Keys |-> <<>>]
    /\ purged = [deleted |-> {}, tagged |-> {}]
    /\ Idle

others == <<files, filePassed, instance, managers, pc, local, inVault, lock, globals>>
threads == <<instance, managers, pc, local, inVault, lock, globals>>

Add(key, content) ==
    LET out == PromptVault_add(vault, key, content)
    IN /\ vault' = out.vault
       /\ result' = Call("add", key, StrSel(""), "", 0, content, out.res)
       /\ passed' = IF out.res.ok THEN [passed EXCEPT ![key] = <<content>>] ELSE passed
       /\ purged' = IF out.res.ok
                    THEN [deleted |-> purged.deleted \ {key}, tagged |-> purged.tagged \ {key}]
                    ELSE purged
       /\ UNCHANGED others

Update(key, content, message) ==
    LET out == PromptVault_update(vault, key, content, message)
    IN /\ vault' = out.vault
       /\ result' = Call("update", key, StrSel(""), "", 0, content, out.res)
       /\ passed' = IF out.res.ok THEN [passed EXCEPT ![key] = Append(@, content)] ELSE passed
       /\ UNCHANGED <<purged, others>>

Get(key, selector) ==
    LET out == PromptVault_get(vault, key, selector)
    IN /\ vault' = out.vault
       /\ result' = Call("get", key, selector, "", 0, <<>>, out.res)
       /\ UNCHANGED <<passed, purged, others>>

GetLatest(key) ==
    LET out == PromptVault_get_latest(vault, key)
    IN /\ vault' = out.vault
       /\ result' = Call("get_latest", key, StrSel(""), "", 0, <<>>, out.res)
       /\ UNCHANGED <<passed, purged, others>>

History(key) ==
    LET out == PromptVault_history(vault, key)
    IN /\ vault' = out.vault
       /\ result' = Call("history", key, StrSel(""), "", 0, <<>>, out.res)
       /\ UNCHANGED <<passed, purged, others>>

Tag(key, tag, version) ==
    LET out == PromptVault_tag(vault, key, tag, version)
    IN /\ vault' = out.vault
       /\ result' = Call("tag", key, StrSel(""), tag, version, <<>>, out.res)
       /\ UNCHANGED <<passed, purged, others>>

Promote(key, tag) ==
    LET out == PromptVault_promote(vault, key, tag)
    IN /\ vault' = out.vault
       /\ result' = Call("promote", key, StrSel(""), tag, 0, <<>>, out.res)
       /\ UNCHANGED <<passed, purged, others>>

GetLatestVersionNumber(key) ==
    LET out == PromptVault_get_latest_version_number(vault, key)
    IN /\ vault' = out.vault
       /\ result' = Call("get_latest_version_number", key, StrSel(""), "", 0, <<>>, out.res)
       /\ UNCHANGED <<passed, purged, others>>

Delete(key) ==
    LET out == PromptVault_delete(vault, key)
    IN /\ vault' = out.vault
       /\ result' = Call("delete", key, StrSel(""), "", 0, <<>>, out.res)
       /\ passed' = IF out.res.ok THEN [passed EXCEPT ![key] = <<>>] ELSE passed
       /\ purged' = IF out.res.ok
                    THEN [deleted |-> purged.deleted \cup {key},
                          tagged |-> IF \E t \in Tags : vault.tags[key][t] # NonePy
                                     THEN purged.tagged \cup {key} ELSE purged.tagged]
                    ELSE purged
       /\ UNCHANGED others

Next ==
    \/ \E k \in Keys, c \in Contents : TotalRecords(vault) < MaxRecords /\ Add(k, c)
    \/ \E k \in Keys, c \in Contents, m \in Messages : TotalRecords(vault) < MaxRecords /\ Update(k, c, m)
    \/ \E k \in Keys : \E sel \in Selectors(vault, k) : Get(k, sel)
    \/ \E k \in Keys : GetLatest(k)
    \/ \E k \in Keys : History(k)
    \/ \E k \in Keys, t \in Tags : \E n \in Versions(vault, k) : Tag(k, t, n)
    \/ \E k \in Keys, t \in Tags : Promote(k, t)
    \/ \E k \in Keys : GetLatestVersionNumber(k)
    \/ \E k \in Keys : Delete(k)

Spec == Init /\ [][Next]_vars

\* the same caller working on one key, with a longer chain
NextChain ==
    \/ \E c \in Contents : Add("k1", c)
    \/ \E c \in Contents, m \in ChainMessages : Len(vault.chains["k1"]) < MaxChain /\ Update("k1", c, m)
    \/ \E sel \in Selectors(vault, "k1") : Get("k1", sel)
    \/ GetLatest("k1")
    \/ History("k1")
    \/ \E t \in Tags : \E n \in Versions(vault, "k1") : Tag("k1", t, n)
    \/ \E t \in Tags : Promote("k1", t)
    \/ GetLatestVersionNumber("k1")
    \/ Delete("k1")

SpecChain == Init /\ [][NextChain]_vars

----------------------------------------------------------------------------
(* The same caller backing the vault up and loading it again
   (src/demo_ppro.py, test_low_level, lines 47-61) *)

PersistContents == {<<"a", "b", "c">>, <<"a", "b", "d">>}
PersistTags == {"stable"}
DumpPasswords == {{}, {"backup_password"}}

FileCall(op, path, password, res) ==
    [Call(op, "", StrSel(""), "", 0, <<>>, res) EXCEPT !.path = path, !.password = password]

Dump(output_path, password) ==
    LET out == PromptVault_dump(vault, files, output_path, password)
    IN /\ files' = out.fs
       /\ result' = FileCall("dump", output_path, password, out.res)
       /\ filePassed' = IF out.res.ok
                        THEN [filePassed EXCEPT ![output_path] =
                                [vault |-> vault, passed |-> passed, password |-> password]]
                        ELSE filePassed
       /\ UNCHANGED <<vault, passed, purged, threads>>

\* restored_vault = PromptVault.restore(...): the caller goes on with the restored vault
Restore(input_path, password) ==
    LET out == PromptVault_restore(files, input_path, password)
    IN /\ result' = FileCall("restore", input_path, password, IF out.ok THEN Ok(<<>>) ELSE out)
       /\ vault' = IF out.ok THEN out.val ELSE vault
       /\ passed' = IF out.ok THEN filePassed[input_path].passed ELSE passed
       /\ purged' = IF out.ok THEN [deleted |-> {}, tagged |-> {}] ELSE purged
       /\ UNCHANGED others

RestoreOrDefault(input_path, password) ==
    LET out == PromptVault_restore_or_default(files, input_path, password)
        fresh == files[input_path].kind = "missing"
    IN /\ result' = FileCall("restore_or_default", input_path, password, IF out.ok THEN Ok(<<>>) ELSE out)
       /\ vault' = IF out.ok THEN out.val ELSE vault
       /\ passed' = IF ~out.ok THEN passed
                    ELSE IF fresh THEN [k \in Keys |-> <<>>] ELSE filePassed[input_path].passed
       /\ purged' = IF out.ok THEN [deleted |-> {}, tagged |-> {}] ELSE purged
       /\ UNCHANGED others

\* os.unlink(backup_path)
Unlink(path) ==
    /\ files[path].kind = "file"
    /\ files' = [files EXCEPT ![path] = Missing]
    /\ filePassed' = [filePassed EXCEPT ![path] = NoDumps[path]]
    /\ result' = FileCall("unlink", path, NonePy, Ok(<<>>))
    /\ UNCHANGED <<vault, passed, purged, threads>>

\* the caller changes the vault only while every dump on disk is current:
\* at most one change between a dump and the next dump, restore or unlink
InSync == \A p \in Paths : files[p].kind = "file" => filePassed[p].vault = vault

PersistNext ==
    \/ \E k \in Keys, c \in PersistContents :
          InSync /\ TotalRecords(vault) < PersistMaxRecords /\ Add(k, c)
    \/ \E k \in Keys, c \in PersistContents, m \in Messages :
          InSync /\ TotalRecords(vault) < PersistMaxRecords /\ Update(k, c, m)
    \/ \E k \in Keys, t \in PersistTags : \E n \in Versions(vault, k) : InSync /\ Tag(k, t, n)
    \/ \E k \in Keys : InSync /\ Delete(k)
    \/ \E p \in Paths, pw \in DumpPasswords : Dump(p, pw)
    \/ \E p \in Paths, pw \in Passwords : Restore(p, pw)
    \/ \E p \in Paths, pw \in Passwords : RestoreOrDefault(p, pw)
    \/ \E p \in Paths : Unlink(p)

SpecPersist == Init /\ [][PersistNext]_vars

----------------------------------------------------------------------------
(* What a caller observes of the current vault *)

Hist(key) == PromptVault_history(vault, key).res
GetRes(key, selector) == PromptVault_get(vault, key, selector).res

LinearHistory(h) ==
    /\ Len(h) >= 1
    /\ \A i \in 1..Len(h) :
        /\ h[i].version = i
        /\ h[i].parent = IF i = 1 THEN NonePy ELSE Some(i - 1)

\* C1: for every Active key history(key) lists versions 1..N oldest first,
\* version 1 has no parent and every other record has parent = version - 1;
\* the list a history call returned has this shape too.
C1_HistoryLinear ==
    /\ \A k \in Keys : Active(vault, k) => Hist(k).ok /\ LinearHistory(Hist(k).val)
    /\ (result.op = "history" /\ result.res.ok) => LinearHistory(result.res.val)

\* a history call returned three or more records, one of them tagged
C1_Witness ==
    /\ result.op = "history" /\ result.res.ok
    /\ Len(result.res.val) >= 3
    /\ \E i \in 1..Len(result.res.val) : result.res.val[i].tags # {}

\* C2: get(key, n) returns the content passed to the n-th successful
\* add/update call of the key since it was created, for every n in 1..N,
\* snapshot or delta, whatever calls followed.
C2_GetRoundTrip ==
    /\ \A k \in Keys : Active(vault, k) =>
        /\ Len(passed[k]) = Len(Hist(k).val)
        /\ \A n \in 1..Len(passed[k]) : GetRes(k, IntSel(n)) = Ok(passed[k][n])
    /\ (result.op = "get" /\ result.sel.type = "int" /\ result.res.ok)
        => result.res.val = passed[result.key][result.sel.n]

\* get returned version 2, stored as a delta, after a third version was
\* appended and a tag was set
C2_Witness ==
    /\ result.op = "get" /\ result.sel = IntSel(2) /\ result.res.ok
    /\ Len(vault.chains[result.key]) >= 3
    /\ ~vault.chains[result.key][2].snapshot
    /\ passed[result.key][2] # passed[result.key][3]
    /\ \E t \in Tags : vault.tags[result.key][t] # NonePy

TagCallOk == result.op = "tag" /\ result.res.ok
PromoteCallOk == result.op = "promote" /\ result.res.ok

\* C3 as stated: right after a successful tag(k, t, v), get(k, t) = get(k, v)
\* for every tag name t, and right after a successful promote(k, t),
\* get(k, t) = get(k, "latest").
C3_TagResolution_AnyTag ==
    /\ TagCallOk => GetRes(result.key, StrSel(result.tag)) = GetRes(result.key, IntSel(result.version))
    /\ PromoteCallOk => GetRes(result.key, StrSel(result.tag)) = GetRes(result.key, StrSel("latest"))

\* C3 amended: the same, for every tag name t other than the selector word
\* "latest" in the tag half; a tag named "latest" is shadowed by the
\* selector and get(k, "latest") keeps returning the highest version.
C3_TagResolution ==
    /\ (TagCallOk /\ result.tag # "latest")
        => /\ GetRes(result.key, StrSel(result.tag)).ok
           /\ GetRes(result.key, StrSel(result.tag)) = GetRes(result.key, IntSel(result.version))
    /\ (TagCallOk /\ result.tag = "latest")
        => GetRes(result.key, StrSel("latest")) = GetRes(result.key, IntSel(Len(vault.chains[result.key])))
    /\ PromoteCallOk
        => /\ GetRes(result.key, StrSel("latest")).ok
           /\ GetRes(result.key, StrSel(result.tag)) = GetRes(result.key, StrSel("latest"))

\* tag(k, "stable", 1) succeeded on a key whose version 2 has another content
C3_Witness ==
    /\ TagCallOk /\ result.tag = "stable" /\ result.version = 1
    /\ Len(passed[result.key]) = 2
    /\ passed[result.key][1] # passed[result.key][2]

\* C4: add succeeds exactly when the key is not Active and otherwise fails
\* with AlreadyExists; update succeeds exactly when the key is Active and
\* otherwise fails with NotFound.  (result.was is the key's state before
\* the call.)
C4_AddUpdateOutcome ==
    /\ result.op = "add" =>
        /\ result.res.ok <=> result.was # "Active"
        /\ ~result.res.ok => result.res.err = "AlreadyExists"
        /\ Active(vault, result.key)
    /\ result.op = "update" =>
        /\ result.res.ok <=> result.was = "Active"
        /\ ~result.res.ok => result.res.err = "NotFound"
        /\ result.res.ok <=> Active(vault, result.key)

\* update failed with NotFound on a key that had been deleted
C4_Witness ==
    /\ result.op = "update" /\ result.res = Err("NotFound")
    /\ result.was \in {"Deleted", "DeletedTagged"}

AllSelectors == {IntSel(n) : n \in 0..(MaxRecords + 1)} \cup {StrSel(s) : s \in Tags \cup {"latest", "nosuch"}}

\* C5: after delete(key) on an Active key every get(key, selector) and
\* history(key) fail with NotFound; a following add(key, content) starts a
\* fresh chain: one record, version 1, no parent, and no tag of the deleted
\* chain resolves.
C5_DeleteThenReAdd ==
    /\ (result.op = "delete" /\ result.res.ok) => result.key \in purged.deleted /\ ~Active(vault, result.key)
    /\ \A k \in purged.deleted :
        /\ Hist(k) = Err("NotFound")
        /\ \A sel \in AllSelectors : GetRes(k, sel) = Err("NotFound")
    /\ (result.op = "add" /\ result.res.ok /\ result.was \in {"Deleted", "DeletedTagged"}) =>
        /\ Hist(result.key).ok
        /\ Len(Hist(result.key).val) = 1
        /\ Hist(result.key).val[1].version = 1
        /\ Hist(result.key).val[1].parent = NonePy
        /\ Hist(result.key).val[1].tags = {}
        /\ GetRes(result.key, StrSel("latest")) = Ok(result.content)
        /\ \A t \in Tags \ {"latest"} : ~GetRes(result.key, StrSel(t)).ok

\* add succeeded on a key that carried a tag when it was deleted
C5_Witness ==
    result.op = "add" /\ result.res.ok /\ result.was = "DeletedTagged"

\* the tag table as history shows it: the versions whose record lists the tag
TaggedVersions(key, tag) ==
    IF Hist(key).ok
    THEN {Hist(key).val[i].version : i \in {j \in 1..Len(Hist(key).val) : tag \in Hist(key).val[j].tags}}
    ELSE {}

C6_TagsPointAtVersions ==
    /\ \A k \in Keys, t \in Tags :
        /\ vault.tags[k][t] # NonePy => Active(vault, k) /\ The(vault.tags[k][t]) \in 1..Len(Hist(k).val)
        /\ TaggedVersions(k, t) = vault.tags[k][t]
    /\ TagCallOk => TaggedVersions(result.key, result.tag) = {result.version}

C6_TagStep ==
    result'.op = "tag" =>
        LET n == Len(vault.chains[result'.key])
        IN /\ result'.version \notin 1..n => ~result'.res.ok /\ vault'.tags = vault.tags
           /\ (result'.version \in 1..n) => result'.res.ok

\* C6: every (key, tag) mapping points at a version in the key's history;
\* tag(key, tag, version) with a version outside 1..N fails and leaves the
\* tag table as it was; a successful tag makes the pair map to that version,
\* whatever it mapped to before.
C6_TagTable == []C6_TagsPointAtVersions /\ [][C6_TagStep]_vars

\* tag with a version past the end failed on a key whose tag already had a
\* mapping, and the mapping is still there
C6_Witness ==
    /\ result.op = "tag" /\ result.res = Err("VersionNotFound")
    /\ result.version = Len(vault.chains[result.key]) + 1
    /\ vault.tags[result.key][result.tag] # NonePy

PersistSelectors ==
    {IntSel(n) : n \in 0..(PersistMaxRecords + 1)} \cup {StrSel(s) : s \in Tags \cup {"latest", "nosuch"}}

\* everything history and get tell about a vault, failures included
Observe(v) ==
    [k \in Keys |-> [history |-> PromptVault_history(v, k).res,
                     get |-> [sel \in PersistSelectors |-> PromptVault_get(v, k, sel).res]]]

C9_DumpedFilesRestore ==
    /\ \A p \in Paths : files[p].kind = "file" =>
        LET back == PromptVault_restore(files, p, filePassed[p].password)
        IN back.ok /\ Observe(back.val) = Observe(filePassed[p].vault)
    /\ (result.op = "dump" /\ result.res.ok) =>
        /\ filePassed[result.path].vault = vault
        /\ filePassed[result.path].password = result.password
    /\ (result.op = "restore" /\ result.res.ok /\ result.password = filePassed[result.path].password)
        => Observe(vault) = Observe(filePassed[result.path].vault)

C9_DumpStep == result'.op = "dump" => vault' = vault

\* C9: a file written by dump(path, password) restores, with the same
\* password, to a vault on which history and get give the same results and
\* the same failures as on the dumped vault, for every key and selector;
\* dump leaves the dumped vault unchanged.
C9_PersistenceRoundTrip == []C9_DumpedFilesRestore /\ [][C9_DumpStep]_vars

\* restore of an encrypted dump, with its password, gave back a vault that
\* holds a delta record and a tag
C9_Witness ==
    /\ result.op = "restore" /\ result.res.ok
    /\ result.password = {"backup_password"}
    /\ filePassed[result.path].password = {"backup_password"}
    /\ \E k \in Keys :
        /\ Len(vault.chains[k]) = 2
        /\ ~vault.chains[k][2].snapshot
        /\ vault.tags[k]["stable"] = Some(1)

C10_WitnessMissing ==
    /\ result.op = "restore_or_default" /\ result.res.ok
    /\ files[result.path].kind = "missing"
    /\ vault = EmptyVault

----------------------------------------------------------------------------
(* src/promptpro/__init__.py: class PromptManager and its singleton.
   Threads call get_singleton; a thread can be preempted between any two
   of its steps: the test of _instance, the construction, the assignment
   and the final read. *)

exists(fs, path) == path \in DOMAIN fs /\ fs[path].kind # "missing"
isfile(fs, path) == path \in DOMAIN fs /\ fs[path].kind = "file"

\* a vault worth loading: two versions of k1, the second a delta, tagged
SampleVault ==
    vault_tag(vault_update(vault_add(EmptyVault, "k1", <<"a", "b", "c">>).vault,
                           "k1", <<"a", "b", "d">>, NonePy).vault,
              "k1", "stable", 1).vault

FileArgs == {{}, {""}, {"vault.bin"}, {"dir"}}
ManagerPasswords == {{}, {"backup_password"}}
\* a password is passed along with the vault file only
ManagerArgs == {a \in FileArgs \X ManagerPasswords : a[2] = NonePy \/ a[1] = {"vault.bin"}}

\* faulty variant: the path is not tested for being a regular file
PromptManager_init_any_path(fs, vault_bin_file, password) ==
    IF vault_bin_file # NonePy /\ The(vault_bin_file) # "" /\ exists(fs, The(vault_bin_file))
    THEN LET loaded == PromptVault_restore_or_default(fs, The(vault_bin_file), password)
         IN IF loaded.ok THEN Ok([class |-> "PromptManager", _rust_vault |-> loaded.val])
            ELSE loaded
    ELSE Ok([class |-> "PromptManager", _rust_vault |-> PromptVault_init(NonePy)._rust_vault])

\* PromptManager(vault_bin_file, password)
PromptManager_init(fs, vault_bin_file, password) ==
    IF vault_bin_file # NonePy /\ The(vault_bin_file) # "" /\ exists(fs, The(vault_bin_file))
    THEN IF ~isfile(fs, The(vault_bin_file)) THEN Err("ValueError")
         ELSE LET loaded == PromptVault_restore_or_default(fs, The(vault_bin_file), password)
              IN IF loaded.ok THEN Ok([class |-> "PromptManager", _rust_vault |-> loaded.val])
                 ELSE loaded
    ELSE Ok([class |-> "PromptManager", _rust_vault |-> PromptVault_init(NonePy)._rust_vault])

Frame(vault_bin_file, password) ==
    [vault_bin_file |-> vault_bin_file, password |-> password, made |-> NonePy,
     got |-> NonePy, err |-> ""]

NoFrame == Frame(NonePy, NonePy)

\* a thread enters get_singleton(vault_bin_file, password)
GetSingletonCall(t, vault_bin_file, password) ==
    /\ pc[t] = "idle"
    /\ pc' = [pc EXCEPT ![t] = "test"]
    /\ local' = [local EXCEPT ![t] = Frame(vault_bin_file, password)]
    /\ UNCHANGED <<vault, result, passed, purged, files, filePassed, globals, instance, managers, inVault, lock>>

\* if PromptManager._instance is None:
GetSingletonTest(t) ==
    /\ pc[t] = "test"
    /\ pc' = [pc EXCEPT ![t] = IF instance = NonePy THEN "construct" ELSE "return"]
    /\ UNCHANGED <<vault, result, passed, purged, files, filePassed, globals, instance, managers, local, inVault, lock>>

\* faulty variant: the new object is registered before its construction has succeeded
GetSingletonConstruct_registers_first(t) ==
    LET made == PromptManager_init(files, local[t].vault_bin_file, local[t].password)
        unbuilt == [class |-> "PromptManager", _rust_vault |-> EmptyVault]
    IN /\ pc[t] = "construct"
       /\ managers' = Append(managers, IF made.ok THEN made.val ELSE unbuilt)
       /\ instance' = IF made.ok THEN instance ELSE Some(Len(managers) + 1)
       /\ IF made.ok
          THEN /\ local' = [local EXCEPT ![t].made = Some(Len(managers) + 1)]
               /\ pc' = [pc EXCEPT ![t] = "assign"]
          ELSE /\ local' = [local EXCEPT ![t].err = made.err]
               /\ pc' = [pc EXCEPT ![t] = "raised"]
       /\ UNCHANGED <<vault, result, passed, purged, files, filePassed, globals, inVault, lock>>

\* PromptManager(vault_bin_file, password): a new manager, or an exception
\* that leaves get_singleton
GetSingletonConstruct(t) ==
    LET made == PromptManager_init(files, local[t].vault_bin_file, local[t].password)
    IN /\ pc[t] = "construct"
       /\ IF made.ok
          THEN /\ managers' = Append(managers, made.val)
               /\ local' = [local EXCEPT ![t].made = Some(Len(managers) + 1)]
               /\ pc' = [pc EXCEPT ![t] = "assign"]
          ELSE /\ managers' = managers
               /\ local' = [local EXCEPT ![t].err = made.err]
               /\ pc' = [pc EXCEPT ![t] = "raised"]
       /\ UNCHANGED <<vault, result, passed, purged, files, filePassed, globals, instance, inVault, lock>>

\* PromptManager._instance = <the new manager>
GetSingletonAssign(t) ==
    /\ pc[t] = "assign"
    /\ instance' = local[t].made
    /\ pc' = [pc EXCEPT ![t] = "return"]
    /\ UNCHANGED <<vault, result, passed, purged, files, filePassed, globals, managers, local, inVault, lock>>

\* return PromptManager._instance
GetSingletonReturn(t) ==
    /\ pc[t] = "return"
    /\ local' = [local EXCEPT ![t].got = instance]
    /\ pc' = [pc EXCEPT ![t] = "done"]
    /\ UNCHANGED <<vault, result, passed, purged, files, filePassed, globals, instance, managers, inVault, lock>>

\* the caller goes on and may call get_singleton again later
GetSingletonAgain(t) ==
    /\ pc[t] \in {"done", "raised"}
    /\ pc' = [pc EXCEPT ![t] = "idle"]
    /\ local' = [local EXCEPT ![t] = NoFrame]
    /\ UNCHANGED <<vault, result, passed, purged, files, filePassed, globals, instance, managers, inVault, lock>>

SingletonInit ==
    /\ vault = EmptyVault
    /\ result = NoCall
    /\ passed = [k \in Keys |-> <<>>]
    /\ purged = [deleted |-> {}, tagged |-> {}]
    /\ files \in {NoFiles, vault_dump(SampleVault, NoFiles, "vault.bin", {"backup_password"}).fs}
    /\ filePassed = NoDumps
    /\ instance = NonePy /\ managers = <<>>
    /\ pc = [t \in Threads |-> "idle"] /\ local = [t \in Threads |-> NoFrame]
    /\ inVault = {} /\ lock = NonePy
    /\ globals = package(CoreExtension).val

SingletonNext ==
    \/ \E t \in Threads, a \in ManagerArgs : GetSingletonCall(t, a[1], a[2])
    \/ \E t \in Threads : GetSingletonTest(t)
    \/ \E t \in Threads : GetSingletonConstruct(t)
    \/ \E t \in Threads : GetSingletonAssign(t)
    \/ \E t \in Threads : GetSingletonReturn(t)
    \/ \E t \in Threads : GetSingletonAgain(t)

SpecSingleton == SingletonInit /\ [][SingletonNext]_vars

\* C7: when several threads call get_singleton before any instance exists,
\* one PromptManager is constructed and every caller receives that one.
C7_SingleWinner ==
    /\ Len(managers) <= 1
    /\ \A t1, t2 \in Threads :
        (pc[t1] = "done" /\ pc[t2] = "done") => local[t1].got = local[t2].got

----------------------------------------------------------------------------
(* Threads sharing one manager.  PromptManager (src/promptpro/__init__.py)
   calls straight into its vault; DefaultPromptManager (src/promptpro/api.py)
   hands every call to the extension's PySyncPromptManager, which is outside
   the sources and takes the manager's lock for the call (spec.md 5).  The
   vault is a passive data structure: a call into it lasts from ManagerBegin
   to ManagerEnd, and its effect is taken at ManagerEnd. *)

ManagerClasses == {"PromptManager", "DefaultPromptManager"}

PromptManager_add(m, key, content) == PromptVault_add(m._rust_vault, key, content)
PromptManager_update(m, key, content, message) == PromptVault_update(m._rust_vault, key, content, message)
PromptManager_tag(m, key, tag, version) == PromptVault_tag(m._rust_vault, key, tag, version)
PromptManager_get_prompt(m, key, selector) == PromptVault_get(m._rust_vault, key, selector)
PromptManager_history(m, key) ==
    LET rust_versions == vault_history(m._rust_vault, key)
    IN IF rust_versions.res.ok
       THEN Out(Ok([i \in DOMAIN rust_versions.res.val |-> VersionMeta(rust_versions.res.val[i])]),
                m._rust_vault)
       ELSE rust_versions

\* the methods a PromptVault object has (src/promptpro/api.py, class PromptVault)
PromptVault_methods ==
    {"add", "update", "get", "get_latest", "history", "tag", "promote", "dump",
     "restore", "restore_or_default", "get_latest_version_number", "delete"}

\* self._rust_vault.<name>: looking up a method the object does not have raises AttributeError
hasattr(methods, name) == name \in methods

PromptManager_latest(m, key) ==
    IF hasattr(PromptVault_methods, "latest")
    THEN PromptVault_get_latest(m._rust_vault, key)
    ELSE Out(Err("AttributeError"), m._rust_vault)

PromptManager_backup(m, fs, path, password) ==
    IF hasattr(PromptVault_methods, "backup")
    THEN PromptVault_dump(m._rust_vault, fs, path, password)
    ELSE [res |-> Err("AttributeError"), fs |-> fs]

\* the extension's manager: the same vault operation under the lock
PySyncPromptManager_lock_free == lock = NonePy

ManagerCalls ==
    {Call("add", "k1", StrSel(""), "", 0, c, Ok(<<>>)) : c \in PersistContents}
    \cup {Call("update", "k1", StrSel(""), "", 0, c, Ok(<<>>)) : c \in PersistContents}
    \cup {Call("tag", "k1", StrSel(""), "stable", n, <<>>, Ok(<<>>)) : n \in 1..MaxRecords}
    \cup {Call("get_prompt", "k1", sel, "", 0, <<>>, Ok(<<>>)) : sel \in {StrSel("latest"), StrSel("stable"), IntSel(1)}}
    \cup {Call("history", "k1", StrSel(""), "", 0, <<>>, Ok(<<>>))}
    \cup {Call("latest", "k1", StrSel(""), "", 0, <<>>, Ok(<<>>))}
    \cup {FileCall("backup", "vault.bin", NonePy, Ok(<<>>))}

Perform(m, fs, call) ==
    LET keep(out) == [res |-> out.res, vault |-> out.vault, fs |-> fs]
    IN IF call.op = "add" THEN keep(PromptManager_add(m, call.key, call.content))
       ELSE IF call.op = "update" THEN keep(PromptManager_update(m, call.key, call.content, NonePy))
       ELSE IF call.op = "tag" THEN keep(PromptManager_tag(m, call.key, call.tag, call.version))
       ELSE IF call.op = "get_prompt" THEN keep(PromptManager_get_prompt(m, call.key, call.sel))
       ELSE IF call.op = "latest" THEN keep(PromptManager_latest(m, call.key))
       ELSE IF call.op = "backup"
       THEN LET out == PromptManager_backup(m, fs, call.path, call.password)
            IN [res |-> out.res, vault |-> m._rust_vault, fs |-> out.fs]
       ELSE keep(PromptManager_history(m, call.key))

Writers == {t \in Threads : pc[t] \in {"waiting", "inside"} /\ local[t].op \in {"add", "update"}}

\* a thread calls an operation of the shared manager
ManagerCall(t, call) ==
    /\ pc[t] = "idle"
    /\ pc' = [pc EXCEPT ![t] = "waiting"]
    /\ local' = [local EXCEPT ![t] = call]
    /\ UNCHANGED <<vault, result, passed, purged, files, filePassed, globals, instance, managers, inVault, lock>>

\* the call reaches the vault: at once for PromptManager, when the lock is
\* free for DefaultPromptManager
ManagerBegin(t) ==
    /\ pc[t] = "waiting"
    /\ IF managers[1].class = "DefaultPromptManager"
       THEN PySyncPromptManager_lock_free /\ lock' = Some(t)
       ELSE lock' = lock
    /\ pc' = [pc EXCEPT ![t] = "inside"]
    /\ inVault' = inVault \cup {t}
    /\ UNCHANGED <<vault, result, passed, purged, files, filePassed, globals, instance, managers, local>>

\* the call returns
ManagerEnd(t) ==
    LET out == Perform(managers[1], files, local[t])
    IN /\ pc[t] = "inside"
       /\ managers' = [managers EXCEPT ![1]._rust_vault = out.vault]
       /\ files' = out.fs
       /\ result' = [local[t] EXCEPT !.res = out.res, !.was = ""]
       /\ inVault' = inVault \ {t}
       /\ lock' = IF lock = Some(t) THEN NonePy ELSE lock
       /\ pc' = [pc EXCEPT ![t] = "idle"]
       /\ local' = [local EXCEPT ![t] = NoCall]
       /\ UNCHANGED <<vault, passed, purged, filePassed, instance, globals>>

ManagerInit ==
    /\ vault = EmptyVault
    /\ result = NoCall
    /\ passed = [k \in Keys |-> <<>>]
    /\ purged = [deleted |-> {}, tagged |-> {}]
    /\ files = NoFiles /\ filePassed = NoDumps
    /\ \E c \in ManagerClasses : managers = <<[class |-> c, _rust_vault |-> EmptyVault]>>
    /\ instance = Some(1)
    /\ pc = [t \in Threads |-> "idle"] /\ local = [t \in Threads |-> NoCall]
    /\ inVault = {} /\ lock = NonePy
    /\ globals = package(CoreExtension).val

ManagerNext ==
    \/ \E t \in Threads, call \in ManagerCalls :
          /\ call.op \in {"add", "update"}
                => Len(managers[1]._rust_vault.chains["k1"]) + Cardinality(Writers) < MaxRecords
          /\ ManagerCall(t, call)
    \/ \E t \in Threads : ManagerBegin(t)
    \/ \E t \in Threads : ManagerEnd(t)

SpecManager == ManagerInit /\ [][ManagerNext]_vars

\* C8: every operation of a shared manager has the wrapped vault to itself
\* for its whole duration: no two threads are inside the vault at once.
C8_ExclusiveAccess ==
    \A t1, t2 \in inVault : t1 = t2

----------------------------------------------------------------------------
(* Loading a backup with another password (api.py, restore) *)

Encrypted(path) == files[path].kind = "file" /\ filePassed[path].password # NonePy

\* C11: a file written by dump(path, p) with a password p is not loaded with
\* any other password q, no password included: restore(path, q) fails with
\* AuthenticationFailed and returns no vault.
C11_WrongPassword ==
    /\ \A path \in Paths : Encrypted(path) =>
          \A q \in Passwords \ {filePassed[path].password} :
              PromptVault_restore(files, path, q) = Err("AuthenticationFailed")
    /\ (result.op = "restore" /\ Encrypted(result.path)
            /\ result.password # filePassed[result.path].password)
          => result.res = Err("AuthenticationFailed")

C11_Witness ==
    /\ result.op = "restore" /\ Encrypted(result.path)
    /\ result.password = {"wrong"}
    /\ result.res = Err("AuthenticationFailed")
    /\ filePassed[result.path].vault # EmptyVault
    /\ PromptVault_restore(files, result.path, NonePy) = Err("AuthenticationFailed")

----------------------------------------------------------------------------
(* The manager's operations against the vault's (src/promptpro/__init__.py,
   lines 61-89, and src/promptpro/api.py, lines 63-157) *)

\* the vault operation a manager operation stands for
VaultOperation(v, fs, call) ==
    LET keep(out) == [res |-> out.res, vault |-> out.vault, fs |-> fs]
    IN IF call.op = "add" THEN keep(PromptVault_add(v, call.key, call.content))
       ELSE IF call.op = "update" THEN keep(PromptVault_update(v, call.key, call.content, NonePy))
       ELSE IF call.op = "tag" THEN keep(PromptVault_tag(v, call.key, call.tag, call.version))
       ELSE IF call.op = "get_prompt" THEN keep(PromptVault_get(v, call.key, call.sel))
       ELSE IF call.op = "latest" THEN keep(PromptVault_get_latest(v, call.key))
       ELSE IF call.op = "backup"
       THEN LET out == PromptVault_dump(v, fs, call.path, call.password)
            IN [res |-> out.res, vault |-> v, fs |-> out.fs]
       ELSE keep(PromptVault_history(v, call.key))

\* C12: every PromptManager operation (add, update, tag, get_prompt, latest,
\* history, backup) returns or raises what the corresponding vault operation
\* (add, update, tag, get, get_latest, history, dump) does on the wrapped
\* vault, and changes the vault and the files as that operation does.
C12_ManagerAsVault ==
    [][\A t \in Threads :
          (pc[t] = "inside" /\ pc'[t] = "idle" /\ managers[1].class = "PromptManager") =>
              LET expected == VaultOperation(managers[1]._rust_vault, files, local[t])
              IN /\ result'.res = expected.res
                 /\ managers'[1]._rust_vault = expected.vault
                 /\ files' = expected.fs]_vars

----------------------------------------------------------------------------
(* The default manager (src/promptpro/__init__.py, lines 26-34, and
   src/promptpro/api.py, lines 216-343).  Threads ask the loaded package for
   the default manager and work on the prompts through the handle they got.
   The extension's PySyncPromptManager is outside the sources: get() hands
   out the one manager of the process, and each of its operations is the
   vault operation, run under the manager's lock (spec.md 5). *)

MaxHandles == 3

\* the attributes of class PromptManager (src/promptpro/__init__.py, lines 37-89)
PromptManager_methods ==
    {"_instance", "__init__", "get_singleton", "add", "update", "tag",
     "get_prompt", "latest", "history", "backup"}

\* the methods src/promptpro/api.py calls on the extension's manager
PySyncPromptManager_methods ==
    {"get", "add", "update", "tag", "get_prompt", "latest", "history", "backup", "delete"}

class_methods(b) ==
    IF b.module = "promptpro" /\ b.object = "PromptManager" THEN PromptManager_methods
    ELSE IF b.object = "PySyncPromptManager" THEN PySyncPromptManager_methods
    ELSE {}

PySyncPromptManager_get == [class |-> "PySyncPromptManager", _rust_manager |-> "self"]

PySyncPromptManager_add(v, key, content) == vault_add(v, key, content)
PySyncPromptManager_update(v, key, content, message) == vault_update(v, key, content, message)
PySyncPromptManager_get_prompt(v, key, selector) == vault_get(v, key, selector)
PySyncPromptManager_latest(v, key) == vault_get_latest(v, key)
PySyncPromptManager_delete(v, key) == vault_delete(v, key)

\* a new DefaultPromptManager object around the extension's manager, at every call
DefaultPromptManager_get_singleton ==
    LET rust_manager == PySyncPromptManager_get
    IN [class |-> "DefaultPromptManager", _rust_manager |-> rust_manager.class]

api_get_default_manager == DefaultPromptManager_get_singleton

get_default_manager(ns) ==
    IF in_globals(ns, "PySyncPromptManager")
    THEN IF hasattr(class_methods(lookup(ns, "PromptManager")), "get")
         THEN Ok(PySyncPromptManager_get)
         ELSE Err("AttributeError")
    ELSE Ok(api_get_default_manager)

DefaultPromptManager_add(m, v, key, content) == PySyncPromptManager_add(v, key, content)
DefaultPromptManager_update(m, v, key, content, message) == PySyncPromptManager_update(v, key, content, message)
DefaultPromptManager_get_prompt(m, v, key, selector) == PySyncPromptManager_get_prompt(v, key, selector)
DefaultPromptManager_latest(m, v, key) == PySyncPromptManager_latest(v, key)
DefaultPromptManager_delete(m, v, key) == PySyncPromptManager_delete(v, key)

DefaultCalls ==
    {Call("add", "k1", StrSel(""), "", 0, c, Ok(<<>>)) : c \in PersistContents}
    \cup {Call("update", "k1", StrSel(""), "", 0, c, Ok(<<>>)) : c \in PersistContents}
    \cup {Call("get_prompt", "k1", sel, "", 0, <<>>, Ok(<<>>)) : sel \in {StrSel("latest"), IntSel(1)}}
    \cup {Call("latest", "k1", StrSel(""), "", 0, <<>>, Ok(<<>>))}
    \cup {Call("delete", "k1", StrSel(""), "", 0, <<>>, Ok(<<>>))}

DefaultPerform(m, v, call) ==
    IF call.op = "add" THEN DefaultPromptManager_add(m, v, call.key, call.content)
    ELSE IF call.op = "update" THEN DefaultPromptManager_update(m, v, call.key, call.content, NonePy)
    ELSE IF call.op = "get_prompt" THEN DefaultPromptManager_get_prompt(m, v, call.key, call.sel)
    ELSE IF call.op = "latest" THEN DefaultPromptManager_latest(m, v, call.key)
    ELSE DefaultPromptManager_delete(m, v, call.key)

\* manager = promptpro.get_default_manager()
GetDefaultManager(t) ==
    LET out == get_default_manager(globals)
    IN /\ in_globals(globals, "get_default_manager")
       /\ Len(managers) < MaxHandles
       /\ result' = Call("get_default_manager", "", StrSel(""), "", 0, <<>>,
                         IF out.ok THEN Ok(<<>>) ELSE out)
       /\ managers' = IF out.ok THEN Append(managers, out.val) ELSE managers
       /\ local' = [local EXCEPT ![t] = IF out.ok THEN Some(Len(managers) + 1) ELSE local[t]]
       /\ UNCHANGED <<vault, passed, purged, files, filePassed, instance, pc, inVault, lock, globals>>

\* manager.<operation>(...) through the handle the thread holds
DefaultManagerCall(t, call) ==
    /\ local[t] # NonePy
    /\ LET out == DefaultPerform(managers[The(local[t])], vault, call)
       IN /\ vault' = out.vault
          /\ result' = [call EXCEPT !.res = out.res, !.was = ""]
    /\ UNCHANGED <<passed, purged, others>>

DefaultInit ==
    /\ vault = EmptyVault
    /\ result = NoCall
    /\ passed = [k \in Keys |-> <<>>]
    /\ purged = [deleted |-> {}, tagged |-> {}]
    /\ files = NoFiles /\ filePassed = NoDumps
    /\ instance = NonePy /\ managers = <<>>
    /\ pc = [t \in Threads |-> "idle"] /\ local = [t \in Threads |-> NonePy]
    /\ inVault = {} /\ lock = NonePy
    /\ \E extension \in Extensions :
          globals = IF package(extension).ok THEN package(extension).val ELSE {}

DefaultNext ==
    \/ \E t \in Threads : GetDefaultManager(t)
    \/ \E t \in Threads, call \in DefaultCalls :
          /\ call.op \in {"add", "update"} => TotalRecords(vault) < MaxRecords
          /\ DefaultManagerCall(t, call)

SpecDefault == DefaultInit /\ [][DefaultNext]_vars

\* C13: once the package is loaded, every call of get_default_manager()
\* succeeds, and all the calls return the same manager: the handles the
\* threads hold stand for one manager, whichever way the package was loaded.
C13_DefaultManager ==
    /\ result.op = "get_default_manager" => result.res.ok
    /\ \A t1, t2 \in Threads :
          (local[t1] # NonePy /\ local[t2] # NonePy) =>
              managers[The(local[t1])] = managers[The(local[t2])]

----------------------------------------------------------------------------
(* How get resolves its selector (src/promptpro/api.py, lines 87-101) *)

\* what get(key, selector) has to return on an Active key
Resolved(key, selector) ==
    LET N == Len(passed[key])
    IN IF selector.type = "int"
       THEN IF selector.n \in 1..N THEN Ok(passed[key][selector.n]) ELSE Err("VersionNotFound")
       ELSE IF selector.s = "latest" THEN Ok(passed[key][N])
       ELSE IF selector.s \in Tags /\ vault.tags[key][selector.s] # NonePy
       THEN Ok(passed[key][The(vault.tags[key][selector.s])])
       ELSE Err("InvalidSelector")

\* C14: on an Active key get(key, "latest") is the highest version, also
\* when a tag named "latest" sits on an older version; every other string is
\* looked up as a tag and is InvalidSelector when no such tag is set; an
\* integer is a version number and nothing else.
C14_SelectorResolution ==
    /\ \A k \in Keys : Active(vault, k) =>
          \A sel \in AllSelectors : GetRes(k, sel) = Resolved(k, sel)
    /\ (result.op = "get" /\ result.was = "Active")
          => result.res = Resolved(result.key, result.sel)

\* get(k, "latest") returned version 2 while the tag "latest" is on version 1
C14_Witness ==
    /\ result.op = "get" /\ result.sel = StrSel("latest")
    /\ Len(passed[result.key]) = 2
    /\ passed[result.key][1] # passed[result.key][2]
    /\ vault.tags[result.key]["latest"] = Some(1)
    /\ result.res = Ok(passed[result.key][2])
    /\ GetRes(result.key, StrSel("stable")) = Err("InvalidSelector")

----------------------------------------------------------------------------
(* The tags field of the history records (src/promptpro/api.py, lines 27-37
   and 115-147) *)

\* the versions whose record in a history list carries the tag
Listing(h, tag) == {h[i].version : i \in {j \in 1..Len(h) : tag \in h[j].tags}}

C15_TagsAgree ==
    /\ \A k \in Keys : Active(vault, k) =>
          \A t \in Tags :
              /\ Listing(Hist(k).val, t) = vault.tags[k][t]
              /\ Cardinality(Listing(Hist(k).val, t)) <= 1
    /\ (result.op = "history" /\ result.res.ok) =>
          \A t \in Tags : Listing(result.res.val, t) = vault.tags[result.key][t]

C15_MoveStep ==
    (result'.op \in {"tag", "promote"} /\ result'.res.ok) =>
        LET k == result'.key
            t == result'.tag
            before == Listing(PromptVault_history(vault, k).res.val, t)
            after == Listing(PromptVault_history(vault', k).res.val, t)
        IN /\ after = vault'.tags[k][t]
           /\ \A v1 \in before : v1 \notin vault'.tags[k][t] => v1 \notin after

\* C15: the tags of the history records are the tag table read the other
\* way: a tag is in the tags of version v exactly when the table maps it to
\* v, so it is on at most one record of a key, and once tag or promote has
\* moved it away from a version that version's record no longer lists it.
C15_TagsInHistory == []C15_TagsAgree /\ [][C15_MoveStep]_vars

\* promote succeeded on a key with three versions: the tag is listed on
\* version 3 alone and the other tag on an older version
C15_Witness ==
    /\ result.op = "promote" /\ result.res.ok
    /\ Len(Hist(result.key).val) = 3
    /\ Listing(Hist(result.key).val, result.tag) = {3}
    /\ \E t \in Tags \ {result.tag} : Listing(Hist(result.key).val, t) = {1}
    /\ Hist(result.key).val[2].tags = {}

----------------------------------------------------------------------------
(* The latest version number (src/promptpro/api.py, lines 194-204) *)

LatestNumber(key) == PromptVault_get_latest_version_number(vault, key).res

----------------------------------------------------------------------------
(* The singleton after its first return (src/promptpro/__init__.py,
   lines 53-59) *)

\* C17: once get_singleton has returned an instance, every later call
\* returns that instance: the instance a finished call holds is the one
\* registered in PromptManager._instance, which is what a call made from
\* now on returns, whatever its arguments.
C17_SameInstanceLater ==
    \A t \in Threads : pc[t] = "done" => local[t].got = instance

----------------------------------------------------------------------------
(* What a failing call leaves behind (src/promptpro/api.py, lines 63-147
   and 206-213) *)

\* C18: a vault operation that fails (add on an Active key; update, tag,
\* promote, get, history or delete on a key that is not Active; tag with a
\* version that does not exist; get with an unknown tag or a version out of
\* range) leaves the histories, contents and tags of every key as they were.
\* (The chains and the tag table are all a vault holds: every history and get
\* result is computed from them.)
C18_FailureFrame ==
    [][~result'.res.ok => vault'.chains = vault.chains /\ vault'.tags = vault.tags]_vars

\* promote failed on a key that is not Active while the other key has two
\* versions and a tag on the first
C18_Witness ==
    /\ result.op = "promote" /\ result.res = Err("NotFound")
    /\ \E k \in Keys \ {result.key} :
          /\ Len(Hist(k).val) = 2
          /\ \E t \in Tags : vault.tags[k][t] = Some(1)

----------------------------------------------------------------------------
(* Constructing a manager (src/promptpro/__init__.py, lines 40-50) *)

\* what PromptManager(vault_bin_file, password) has to do, by the state of the path
Chosen(fs, vault_bin_file, password) ==
    LET path == The(vault_bin_file)
    IN IF vault_bin_file = NonePy \/ path = "" \/ fs[path].kind = "missing"
       THEN Ok(EmptyVault)
       ELSE IF fs[path].kind # "file" THEN Err("ValueError")
       ELSE PromptVault_restore(fs, path, password)

\* C19: PromptManager(vault_bin_file, password) raises ValueError and makes
\* no vault when the path exists and is not a regular file; loads the vault
\* from the path with the password when it is a regular file, a failure to
\* load being raised; and makes a new empty vault, reading nothing, when
\* vault_bin_file is None, empty or names no existing path.
C19_VaultByPath ==
    /\ \A a \in FileArgs \X Passwords :
          LET made == PromptManager_init(files, a[1], a[2])
              chosen == Chosen(files, a[1], a[2])
          IN /\ made.ok = chosen.ok
             /\ made.ok => made.val._rust_vault = chosen.val
             /\ ~made.ok => made.err = chosen.err
    /\ \A t \in Threads :
          LET chosen == Chosen(files, local[t].vault_bin_file, local[t].password)
          IN /\ pc[t] = "assign" =>
                  chosen.ok /\ managers[The(local[t].made)]._rust_vault = chosen.val
             /\ pc[t] = "raised" =>
                  ~chosen.ok /\ local[t].err = chosen.err /\ local[t].made = NonePy

\* one thread was refused a directory, another built its manager from the
\* encrypted vault file
C19_Witness ==
    \E t1, t2 \in Threads :
        /\ pc[t1] = "raised" /\ local[t1].err = "ValueError"
        /\ local[t1].vault_bin_file = {"dir"}
        /\ pc[t2] = "assign" /\ local[t2].vault_bin_file = {"vault.bin"}
        /\ managers[The(local[t2].made)]._rust_vault = SampleVault

----------------------------------------------------------------------------
(* A construction that fails inside get_singleton
   (src/promptpro/__init__.py, lines 53-59) *)

\* whatever is registered is a manager whose construction succeeded
C20_Registered ==
    /\ instance # NonePy => The(instance) \in 1..Len(managers)
    /\ managers = <<>> => instance = NonePy
    /\ \A t \in Threads : pc[t] = "raised" => local[t].made = NonePy /\ local[t].got = NonePy

C20_FailStep ==
    \A t \in Threads :
        /\ (pc[t] = "construct" /\ pc'[t] = "raised") =>
              instance' = instance /\ managers' = managers
        /\ (pc[t] = "test" /\ pc'[t] # "test" /\ instance = NonePy) =>
              pc'[t] = "construct" /\ local'[t] = local[t]

\* C20: when PromptManager(...) fails inside get_singleton (ValueError, or a
\* failure to load), nothing is registered: _instance is left as it was, so
\* still None if no construction has succeeded, and a call that finds it
\* None goes on to construct with its own arguments.
C20_FailedConstruction == []C20_Registered /\ [][C20_FailStep]_vars

\* a call failed to load the vault file, nothing is registered, and another
\* call is constructing with its own arguments
C20_Witness ==
    \E t1, t2 \in Threads :
        /\ pc[t1] = "raised" /\ local[t1].err = "AuthenticationFailed"
        /\ instance = NonePy /\ managers = <<>>
        /\ pc[t2] = "construct" /\ local[t2].vault_bin_file # local[t1].vault_bin_file

====
